---- MODULE Spec2Model ----
(***************************************************************************)
(* Model of sharded-vec-writer (src/src/lib.rs): a VecWriter hands out     *)
(* disjoint Shards of a Vec's spare capacity, shards are filled with       *)
(* try_push and given back with try_return_shard, which extends the Vec's  *)
(* length.  Two Vecs (and their writers) are modelled so that shards can   *)
(* be presented to a writer that did not create them.                      *)
(***************************************************************************)
EXTENDS Integers, Sequences, FiniteSets, TLC

\* ---- bounds of the model ----
MaxCap    == 2      \* largest capacity of a Vec of a sized element type
UsizeMax  == 3      \* stands for usize::MAX
MaxShards == 2      \* shards taken in one run (both writers together)
NumValues == 2      \* distinct values of a sized element type

Bufs    == {1, 2}            \* the two Vecs, each with its own VecWriter
\* the first Vec is Vec::with_capacity(c) with c <= MaxCap; the second Vec is
\* Vec::new(), so that for a sized element type it has not allocated
CapBound(b) == IF b = 1 THEN MaxCap ELSE 0
Values  == 1..NumValues      \* values pushed for a sized element type
InitVal == NumValues + 1     \* value of the elements a Vec holds at the start
Unit    == NumValues + 2     \* the only value of a zero-sized element type
Uninit  == 0                 \* content of a slot nothing was written to
Dangling == 0                \* NonNull::dangling(): pointer of a Vec without allocation

VARIABLES
    zst,        \* TRUE iff the element type T is zero-sized
    capacity,   \* capacity[b] : Vec::capacity() of Vec b
    len,        \* len[b]      : Vec::len() of Vec b
    mem,        \* mem[b][i]   : content of slot i of the allocation of Vec b
    taken,      \* taken[w]    : VecWriter::taken of the writer of Vec w
    shards,     \* sequence of Shard records, in the order they were taken
    returned,   \* returned[w] : shards try_return_shard accepted, in order
    last,       \* the last operation and its result
    len0,       \* len0[b]    : Vec::len() of Vec b when its writer was created
    written     \* written[b][i] : the shards that wrote slot i of Vec b's
                \*                 allocation, in the order of the writes

vars == <<zst, capacity, len, mem, taken, shards, returned, last, len0, written>>

ShardIds == 1..Len(shards)
Live(s)  == shards[s].state = "live"

\* Vec::capacity(): usize::MAX for a zero-sized T, else the allocated capacity
VecCapacity(z, c) == IF z THEN UsizeMax ELSE c

\* Vec::as_mut_ptr(): a Vec that has not allocated (capacity 0 or zero-sized
\* T) holds the dangling pointer, every other Vec its own allocation
as_mut_ptr_same(b) == Dangling
as_mut_ptr(b) == IF zst \/ capacity[b] = 0 THEN Dangling ELSE b

\* usize::saturating_add
saturating_add_wrapping(a, n) == (a + n) % (UsizeMax + 1)
saturating_add(a, n) == IF a + n > UsizeMax THEN UsizeMax ELSE a + n

\* ptr.add(offset).read(): a zero-sized read touches no memory
ReadSlot(p, offset) == IF zst THEN Unit ELSE mem[p][offset]

\* VecWriter::new: taken starts at the Vec's length
new_zero(storage_len) == 0
new(storage_len) == storage_len

Init ==
    /\ zst \in BOOLEAN
    /\ \E c \in [Bufs -> 0..MaxCap] :
          /\ \A b \in Bufs : c[b] <= CapBound(b)
          /\ capacity = [b \in Bufs |-> VecCapacity(zst, c[b])]
    /\ len \in [Bufs -> 0..MaxCap]
    /\ \A b \in Bufs : len[b] <= CapBound(b)
    /\ \A b \in Bufs : len[b] <= capacity[b]
    /\ mem = [b \in Bufs |-> [i \in 0..(UsizeMax - 1) |->
                IF ~zst /\ i < len[b] THEN InitVal ELSE Uninit]]
    /\ taken = [w \in Bufs |-> new(len[w])]
    /\ shards = << >>
    /\ returned = [w \in Bufs |-> << >>]
    /\ last = [op |-> "new", w |-> 0, s |-> 0, res |-> "Ok"]
    /\ len0 = len
    /\ written = [b \in Bufs |-> [i \in 0..(UsizeMax - 1) |-> << >>]]

\* VecWriter::try_take_shard
TakeEnd_plain(w, n) == taken[w] + n
TakeEnd(w, n) == saturating_add(taken[w], n)

NewStart_zero(w) == 0
NewStart(w) == taken[w]

TryTakeShard(w, n) ==
    LET end_offset == TakeEnd(w, n) IN
    IF end_offset > capacity[w]
    THEN /\ last' = [op |-> "try_take_shard", w |-> w, s |-> 0, res |-> "None"]
         /\ UNCHANGED <<zst, capacity, len, mem, taken, shards, returned, len0, written>>
    ELSE /\ Len(shards) < MaxShards
         /\ shards' = Append(shards,
                [storage |-> as_mut_ptr(w),
                 start_offset |-> NewStart(w),
                 initialised_up_to |-> NewStart(w),
                 end_offset |-> end_offset,
                 owner |-> w, state |-> "live", pushed |-> << >>,
                 destructed |-> << >>, returned_to |-> 0])
         /\ taken' = [taken EXCEPT ![w] = end_offset]
         /\ last' = [op |-> "try_take_shard", w |-> w, s |-> Len(shards) + 1,
                     res |-> "Some"]
         /\ UNCHANGED <<zst, capacity, len, mem, returned, len0, written>>

\* Shard::try_push
PushFull_never(sh) == FALSE
PushFull(sh) == sh.initialised_up_to = sh.end_offset

PushSlot_start(sh) == sh.start_offset
PushSlot(sh) == sh.initialised_up_to

TryPush(s, value) ==
    /\ Live(s)
    /\ value \in (IF zst THEN {Unit} ELSE Values)
    /\ LET sh == shards[s] IN
       IF PushFull(sh)
       THEN /\ last' = [op |-> "try_push", w |-> 0, s |-> s, res |-> "InsufficientCapacity"]
            /\ UNCHANGED <<zst, capacity, len, mem, taken, shards, returned, len0, written>>
       ELSE /\ mem' = IF zst THEN mem
                      ELSE [mem EXCEPT ![sh.storage][PushSlot(sh)] = value]
            /\ written' = IF zst THEN written
                          ELSE [written EXCEPT ![sh.storage][PushSlot(sh)] =
                                    Append(@, s)]
            /\ shards' = [shards EXCEPT ![s].initialised_up_to = sh.initialised_up_to + 1,
                                        ![s].pushed = Append(sh.pushed, value)]
            /\ last' = [op |-> "try_push", w |-> 0, s |-> s, res |-> "Ok"]
            /\ UNCHANGED <<zst, capacity, len, taken, returned, len0>>

\* Shard::output_offset
output_offset_start(sh) == sh.start_offset
output_offset(sh) == sh.initialised_up_to

\* impl Drop for Shard: the offsets read, in the order read, with the value
\* found there
RECURSIVE Range(_, _)
Range(a, b) == IF a >= b THEN << >> ELSE <<a>> \o Range(a + 1, b)

DropOffsets_whole(sh) == Range(sh.start_offset, sh.end_offset)
DropOffsets(sh) == Range(sh.start_offset, sh.initialised_up_to)

DropReads(sh) ==
    LET offs == DropOffsets(sh) IN
    [i \in 1..Len(offs) |-> <<offs[i], ReadSlot(sh.storage, offs[i])>>]

Dropped_forgotten(sh) == [sh EXCEPT !.state = "dropped"]
Dropped(sh) == [sh EXCEPT !.state = "dropped", !.destructed = DropReads(sh)]

\* drop(shard): the shard goes out of scope without being returned
DropShard(s) ==
    /\ Live(s)
    /\ shards' = [shards EXCEPT ![s] = Dropped(shards[s])]
    /\ last' = [op |-> "drop", w |-> 0, s |-> s, res |-> "Ok"]
    /\ UNCHANGED <<zst, capacity, len, mem, taken, returned, len0, written>>

\* VecWriter::try_return_shard: the three checks, first failure wins
WrongVec_never(w, sh) == FALSE
WrongVec(w, sh) == as_mut_ptr(w) # sh.storage

UninitElements_never(sh) == FALSE
UninitElements(sh) == sh.initialised_up_to # sh.end_offset

OutOfOrder_never(w, sh) == FALSE
OutOfOrder(w, sh) == len[w] # sh.start_offset

ReturnCheck_reordered(w, sh) ==
    IF WrongVec(w, sh) THEN "WrongVec"
    ELSE IF OutOfOrder(w, sh) THEN "OutOfOrder"
    ELSE IF UninitElements(sh) THEN "UninitElements"
    ELSE "Ok"
ReturnCheck(w, sh) ==
    IF WrongVec(w, sh) THEN "WrongVec"
    ELSE IF UninitElements(sh) THEN "UninitElements"
    ELSE IF OutOfOrder(w, sh) THEN "OutOfOrder"
    ELSE "Ok"

\* core::mem::forget(shard): the shard ends without its Drop running
Forgotten_dropped(sh, w) == [Dropped(sh) EXCEPT !.state = "returned", !.returned_to = w]
Forgotten(sh, w) == [sh EXCEPT !.state = "returned", !.returned_to = w]

\* the length handed to Vec::set_len
NewLen_start(sh) == sh.start_offset
NewLen(sh) == sh.initialised_up_to

\* the shard is taken by value: on Ok it is forgotten, on Err it goes out of
\* scope at the return and its Drop runs
TryReturnShard(w, s) ==
    /\ Live(s)
    /\ LET sh == shards[s]
           res == ReturnCheck(w, sh) IN
       /\ last' = [op |-> "try_return_shard", w |-> w, s |-> s, res |-> res]
       /\ IF res = "Ok"
          THEN /\ len' = [len EXCEPT ![w] = NewLen(sh)]
               /\ shards' = [shards EXCEPT ![s] = Forgotten(sh, w)]
               /\ returned' = [returned EXCEPT ![w] = Append(returned[w], s)]
               /\ UNCHANGED <<zst, capacity, mem, taken, len0, written>>
          ELSE /\ shards' = [shards EXCEPT ![s] = Dropped(sh)]
               /\ UNCHANGED <<zst, capacity, len, mem, taken, returned, len0, written>>

Next ==
    \/ \E w \in Bufs, n \in 0..UsizeMax : TryTakeShard(w, n)
    \/ \E s \in ShardIds, value \in Values \cup {Unit} : TryPush(s, value)
    \/ \E s \in ShardIds : DropShard(s)
    \/ \E w \in Bufs, s \in ShardIds : TryReturnShard(w, s)

Spec == Init /\ [][Next]_vars

\* ---- shorthands used by the properties ----
Full(sh)      == sh.initialised_up_to = sh.end_offset
Owned(w)      == {s \in ShardIds : shards[s].owner = w}
\* this step is try_return_shard(s) on writer w
ReturnStep(w, s) ==
    /\ last'.op = "try_return_shard" /\ last'.w = w /\ last'.s = s
    /\ s \in ShardIds /\ Live(s)
\* element i of Vec w
VecGet(w, i) == ReadSlot(as_mut_ptr(w), i)
\* the offsets start, start+1, ..., cursor-1 with the values pushed there
PushedAt(sh) == [i \in 1..Len(sh.pushed) |-> <<sh.start_offset + i - 1, sh.pushed[i]>>]

\* C1: returning a fully initialised shard of this writer whose start differs
\* from the Vec's length fails with OutOfOrder and leaves the length unchanged
C1_OutOfOrderRejected ==
    [][\A w \in Bufs, s \in ShardIds :
        (ReturnStep(w, s) /\ shards[s].owner = w /\ Full(shards[s])
            /\ shards[s].start_offset # len[w])
        => (last'.res = "OutOfOrder" /\ len' = len)]_vars

\* a later shard was presented before an earlier one and was rejected
C1_Witness ==
    /\ last.op = "try_return_shard" /\ last.res = "OutOfOrder"
    /\ shards[last.s].owner = last.w
    /\ Full(shards[last.s])
    /\ shards[last.s].start_offset > len[last.w]
    /\ \E t \in Owned(last.w) : t < last.s /\ Live(t)

\* C2: when the shards of a writer are returned in the order they were taken,
\* each fully initialised, every return succeeds, and once all are returned
\* the Vec's length equals taken
InOrderSoFar(w, s) ==
    /\ shards[s].owner = w
    /\ Len(returned[w]) = Cardinality({t \in Owned(w) : t < s})
    /\ \A i \in 1..Len(returned[w]) :
          /\ returned[w][i] \in Owned(w)
          /\ returned[w][i] < s
          /\ \A j \in 1..Len(returned[w]) : i < j => returned[w][i] < returned[w][j]
C2_InOrderSucceeds ==
    [][\A w \in Bufs, s \in ShardIds :
        (ReturnStep(w, s) /\ InOrderSoFar(w, s) /\ Full(shards[s]))
        => /\ last'.res = "Ok"
           /\ len'[w] = shards[s].end_offset
           /\ (\A t \in Owned(w) : t <= s) => len'[w] = taken'[w]]_vars

\* two shards of one writer, the second not empty, returned in order
C2_Witness ==
    \E w \in Bufs :
        /\ Len(returned[w]) = 2
        /\ Owned(w) = {1, 2}
        /\ returned[w] = <<1, 2>>
        /\ shards[2].end_offset > shards[2].start_offset
        /\ last.op = "try_return_shard" /\ last.res = "Ok" /\ last.s = 2
        /\ len[w] = taken[w]

C4_CommitOrder ==
    \A w \in Bufs : \A i, j \in 1..Len(returned[w]) :
        (i < j /\ returned[w][i] \in Owned(w) /\ returned[w][j] \in Owned(w))
        => returned[w][i] < returned[w][j]

\* C4 (amended): two shards of a writer of which at least one is not empty
\* are never returned against the order they were taken in
NonEmpty(s) == shards[s].end_offset > shards[s].start_offset
C4_CommitOrderNonEmpty ==
    \A w \in Bufs : \A i, j \in 1..Len(returned[w]) :
        (i < j /\ returned[w][i] \in Owned(w) /\ returned[w][j] \in Owned(w)
            /\ (NonEmpty(returned[w][i]) \/ NonEmpty(returned[w][j])))
        => returned[w][i] < returned[w][j]

\* two shards of one writer, both not empty, have been returned
C4_Witness ==
    \E w \in Bufs :
        /\ Len(returned[w]) = 2
        /\ returned[w][1] \in Owned(w) /\ returned[w][2] \in Owned(w)
        /\ NonEmpty(returned[w][1]) /\ NonEmpty(returned[w][2])

\* C5: a fully initialised shard whose start equals the length of the target
\* Vec is rejected with WrongVec by every writer other than its own, and the
\* target's length is unchanged
C5_CrossWriterRejected ==
    [][\A w \in Bufs, s \in ShardIds :
        (ReturnStep(w, s) /\ shards[s].owner # w /\ Full(shards[s])
            /\ shards[s].start_offset = len[w])
        => (last'.res = "WrongVec" /\ len' = len)]_vars

\* C6: the checks are made in the order identity, completeness, ordering: a
\* shard of another writer gets WrongVec even when it is incomplete or out of
\* order, and an incomplete out-of-order shard of this writer gets
\* UninitElements
C6_CheckOrder ==
    [][\A w \in Bufs, s \in ShardIds :
        ReturnStep(w, s) =>
            /\ (shards[s].owner # w
                    /\ (~Full(shards[s]) \/ shards[s].start_offset # len[w]))
                => last'.res = "WrongVec"
            /\ (shards[s].owner = w /\ ~Full(shards[s])
                    /\ shards[s].start_offset # len[w])
                => last'.res = "UninitElements"]_vars

\* this step is try_take_shard(n) on writer w
TakeStep(w, n) == last'.op = "try_take_shard" /\ last'.w = w /\ TryTakeShard(w, n)

\* C7: try_take_shard(n) succeeds iff taken + n <= capacity; on success the
\* shard is [taken, taken + n) with the cursor at taken and taken advances by
\* n; on failure taken is unchanged
C7_TakeIffFits ==
    [][\A w \in Bufs, n \in 0..UsizeMax :
        TakeStep(w, n) =>
            /\ (last'.res = "Some") <=> (taken[w] + n <= capacity[w])
            /\ last'.res = "Some" =>
                  /\ Len(shards') = Len(shards) + 1
                  /\ shards'[last'.s].start_offset = taken[w]
                  /\ shards'[last'.s].initialised_up_to = taken[w]
                  /\ shards'[last'.s].end_offset = taken[w] + n
                  /\ taken'[w] = taken[w] + n
            /\ last'.res = "None" => (taken' = taken /\ shards' = shards)]_vars

\* C8: two live shards of one writer never claim a common index
Claims(s, i) == shards[s].start_offset <= i /\ i < shards[s].end_offset
C8_LiveShardsDisjoint ==
    \A s, t \in ShardIds :
        (s # t /\ Live(s) /\ Live(t) /\ shards[s].owner = shards[t].owner)
        => \A i \in 0..UsizeMax : ~(Claims(s, i) /\ Claims(t, i))

\* two non-empty shards of one writer are live and the later one was written to
C8_Witness ==
    \E s, t \in ShardIds :
        /\ s < t /\ Live(s) /\ Live(t) /\ shards[s].owner = shards[t].owner
        /\ NonEmpty(s) /\ NonEmpty(t)
        /\ Len(shards[t].pushed) > 0

\* C9: the k-th value pushed to a shard that was returned stands at index
\* start + k - 1 of the Vec, in every later state
C9_RoundTrip ==
    \A s \in ShardIds :
        shards[s].state = "returned" =>
            \A k \in 1..Len(shards[s].pushed) :
                /\ shards[s].start_offset + k - 1 < len[shards[s].returned_to]
                /\ VecGet(shards[s].returned_to, shards[s].start_offset + k - 1)
                       = shards[s].pushed[k]

\* two shards with different values were returned, then something else ran
C9_Witness ==
    /\ ~zst
    /\ Len(shards) = 2
    /\ shards[1].state = "returned" /\ shards[2].state = "returned"
    /\ shards[1].pushed = <<2>> /\ shards[2].pushed = <<1>>
    /\ shards[1].returned_to = 1 /\ shards[2].returned_to = 1
    /\ len[1] = 2
    /\ last.op = "try_take_shard" /\ last.res = "None"

\* this step is drop(s)
DropStep(s) == last'.op = "drop" /\ last'.s = s /\ s \in ShardIds /\ Live(s)

\* C10: dropping a shard destructs, in ascending order, exactly the values at
\* [start, cursor), in the same step, and changes neither memory nor the
\* Vec's length or capacity, nor any other shard
C10_DropDestructsWritten ==
    [][\A s \in ShardIds :
        DropStep(s) =>
            /\ shards'[s].state = "dropped"
            /\ Len(shards'[s].destructed)
                   = shards[s].initialised_up_to - shards[s].start_offset
            /\ \A i \in 1..Len(shards'[s].destructed) :
                  /\ shards'[s].destructed[i][1] = shards[s].start_offset + i - 1
                  /\ shards'[s].destructed[i][2] = shards[s].pushed[i]
            /\ mem' = mem /\ len' = len /\ capacity' = capacity /\ taken' = taken
            /\ \A t \in ShardIds : t # s => shards'[t] = shards[t]]_vars

\* a shard of size two with one value written was dropped
C10_Witness ==
    /\ last.op = "drop"
    /\ shards[last.s].state = "dropped"
    /\ shards[last.s].end_offset - shards[last.s].start_offset = 2
    /\ Len(shards[last.s].destructed) = 1

\* this step is try_push on shard s
PushStep(s) == last'.op = "try_push" /\ last'.s = s /\ s \in ShardIds /\ Live(s)
\* the content of slot offset behind pointer p after the step
ReadSlotAfter(p, offset) == IF zst THEN Unit ELSE mem'[p][offset]

\* C11: try_push on a shard with cursor < end puts the value at offset cursor
\* and moves the cursor by one; on a shard with cursor = end it fails with
\* InsufficientCapacity, writes nothing and leaves the shard as it was, still
\* accepted by its writer; start <= cursor <= end throughout and output_offset
\* is start plus the number of successful pushes
C11_PushContract ==
    [][/\ \A s \in ShardIds :
            PushStep(s) =>
                IF shards[s].initialised_up_to < shards[s].end_offset
                THEN /\ last'.res = "Ok"
                     /\ shards'[s].initialised_up_to = shards[s].initialised_up_to + 1
                     /\ Len(shards'[s].pushed) = Len(shards[s].pushed) + 1
                     /\ ReadSlotAfter(shards[s].storage, shards[s].initialised_up_to)
                            = shards'[s].pushed[Len(shards'[s].pushed)]
                     /\ zst \/ \A b \in Bufs, i \in 0..(UsizeMax - 1) :
                            (b # shards[s].storage \/ i # shards[s].initialised_up_to)
                            => mem'[b][i] = mem[b][i]
                ELSE /\ last'.res = "InsufficientCapacity"
                     /\ shards' = shards /\ mem' = mem
                     /\ shards[s].initialised_up_to = shards[s].end_offset
                     /\ ReturnCheck(shards[s].owner, shards[s])' =
                            ReturnCheck(shards[s].owner, shards[s])
       /\ \A s \in 1..Len(shards') :
            /\ shards'[s].start_offset <= shards'[s].initialised_up_to
            /\ shards'[s].initialised_up_to <= shards'[s].end_offset
            /\ output_offset(shards'[s]) = shards'[s].start_offset + Len(shards'[s].pushed)
      ]_vars

\* a push on a full shard was refused
C11_WitnessRefused ==
    /\ last.op = "try_push" /\ last.res = "InsufficientCapacity"
    /\ Live(last.s)
    /\ Len(shards[last.s].pushed) = 2
    /\ shards[last.s].initialised_up_to = shards[last.s].end_offset

\* the returned shard that claims index i of Vec w, if there is one
ReturnedAt(w, i) ==
    {s \in ShardIds : shards[s].state = "returned" /\ shards[s].returned_to = w
                      /\ Claims(s, i)}

\* C12: however the pushes to different shards interleave, no slot is written
\* by two shards or twice, the cursor and the stored values of a shard that
\* was not dropped are those of its own pushes, and every element of the Vec
\* past its initial length is the value its one returned shard pushed there
C12_PushesIndependent ==
    /\ \A b \in Bufs, i \in 0..(UsizeMax - 1) : Len(written[b][i]) <= 1
    /\ \A s \in ShardIds :
          /\ ~zst => \A k \in 1..Len(shards[s].pushed) :
                        written[shards[s].storage][shards[s].start_offset + k - 1] = <<s>>
          /\ shards[s].state # "dropped" =>
                /\ shards[s].initialised_up_to
                      = shards[s].start_offset + Len(shards[s].pushed)
                /\ \A k \in 1..Len(shards[s].pushed) :
                      ReadSlot(shards[s].storage, shards[s].start_offset + k - 1)
                         = shards[s].pushed[k]
    /\ \A w \in Bufs, i \in 0..(UsizeMax - 1) :
          (len0[w] <= i /\ i < len[w]) =>
              /\ Cardinality(ReturnedAt(w, i)) = 1
              /\ \A s \in ReturnedAt(w, i) :
                    VecGet(w, i) = shards[s].pushed[i - shards[s].start_offset + 1]

\* the later of two live shards is written while the earlier one is still empty
C12_WitnessInterleaved ==
    /\ ~zst
    /\ Len(shards) = 2
    /\ Live(1) /\ Live(2) /\ shards[1].owner = 1 /\ shards[2].owner = 1
    /\ NonEmpty(1) /\ shards[1].pushed = << >>
    /\ Len(shards[2].pushed) = 1
    /\ last.op = "try_push" /\ last.s = 2

RECURSIVE SumSizes(_)
\* the sizes of the shards in the set S, added up
SumSizes(S) ==
    IF S = {} THEN 0
    ELSE LET s == CHOOSE x \in S : TRUE IN
         shards[s].end_offset - shards[s].start_offset + SumSizes(S \ {s})
\* the first shard writer w handed out
FirstOwned(w) == CHOOSE s \in Owned(w) : \A t \in Owned(w) : s <= t

\* C13: a writer created over a Vec of length L0 > 0 has taken = L0 before it
\* hands out anything, hands out at most capacity - L0 slots, its first shard
\* starts at L0 and is accepted once full when nothing was returned before, and
\* the elements at [0, L0) are never written, changed or destructed
C13_ResumeOnNonEmpty ==
    [][\A w \in Bufs : len0[w] > 0 =>
         /\ Len(shards) = 0 => taken[w] = len0[w]
         /\ taken'[w] = len0[w] + SumSizes(Owned(w))'
         /\ SumSizes(Owned(w))' <= capacity[w] - len0[w]
         /\ Owned(w)' # {} => shards'[FirstOwned(w)'].start_offset = len0[w]
         /\ \A s \in ShardIds :
              (ReturnStep(w, s) /\ s \in Owned(w) /\ s = FirstOwned(w) /\ Full(shards[s])
                  /\ returned[w] = << >>)
              => last'.res = "Ok"
         /\ \A i \in 0..(len0[w] - 1) :
              /\ ReadSlotAfter(as_mut_ptr(w), i) = (IF zst THEN Unit ELSE InitVal)
              /\ written'[w][i] = << >>
         /\ \A s \in 1..Len(shards') :
              (shards'[s].owner = w \/ (~zst /\ shards'[s].storage = w))
              => \A k \in 1..Len(shards'[s].destructed) :
                    shards'[s].destructed[k][1] >= len0[w]
      ]_vars

\* the first shard of a writer over a Vec of length 1 was filled and returned
C13_Witness ==
    \E w \in Bufs :
        /\ len0[w] = 1
        /\ Owned(w) # {}
        /\ shards[FirstOwned(w)].start_offset = 1
        /\ NonEmpty(FirstOwned(w))
        /\ returned[w] = <<FirstOwned(w)>>
        /\ last.op = "try_return_shard" /\ last.res = "Ok"
        /\ len[w] > 1

\* element i of Vec w is a live value: one the Vec held at the start, or one
\* that a push wrote and no Drop destructed (for a zero-sized type, which has
\* no slots: one of a full, forgotten shard returned to w)
SlotLive(w, i) ==
    \/ i < len0[w]
    \/ /\ zst
       /\ \E s \in ReturnedAt(w, i) : Full(shards[s]) /\ shards[s].destructed = << >>
    \/ /\ ~zst
       /\ Len(written[w][i]) = 1
       /\ VecGet(w, i) \in Values
       /\ \A s \in ShardIds : shards[s].storage = w =>
             \A k \in 1..Len(shards[s].destructed) : shards[s].destructed[k][1] # i
AllLive == \A w \in Bufs, i \in 0..(UsizeMax - 1) : i < len[w] => SlotLive(w, i)

\* C14 (as stated): every element below the Vec's length is a live value, and
\* returning a shard with cursor # end always fails with UninitElements
C14_LiveBelowLen ==
    [][/\ AllLive'
       /\ \A w \in Bufs, s \in ShardIds :
            (ReturnStep(w, s) /\ ~Full(shards[s])) => last'.res = "UninitElements"
      ]_vars

\* C14 (amended): every element below the Vec's length is a live value, and
\* returning a shard with cursor # end always fails: with UninitElements, or
\* with WrongVec when the identity check rejects the shard first
C14_LiveBelowLenAmended ==
    [][/\ AllLive'
       /\ \A w \in Bufs, s \in ShardIds :
            (ReturnStep(w, s) /\ ~Full(shards[s])) =>
                /\ last'.res \in {"UninitElements", "WrongVec"}
                /\ shards[s].storage = as_mut_ptr(w) => last'.res = "UninitElements"
                /\ len' = len
      ]_vars

\* a half-filled shard was refused by its own writer, whose Vec holds the
\* elements of an earlier shard
C14_Witness ==
    /\ last.op = "try_return_shard" /\ last.res = "UninitElements"
    /\ shards[last.s].owner = last.w
    /\ len[last.w] > len0[last.w]
    /\ shards[last.s].start_offset = len[last.w]

\* C15: len <= taken <= capacity for every writer after every step, and no
\* step changes the capacity
C15_LenTakenCapacity ==
    [][/\ \A w \in Bufs : len'[w] <= taken'[w] /\ taken'[w] <= capacity'[w]
       /\ capacity' = capacity]_vars

\* C16: the ranges of the shards returned to a writer, in the order they were
\* returned, tile [len0, len): the first starts at the initial length, each
\* next one starts where the one before ended, the last ends at the length
C16_ReturnedTile ==
    \A w \in Bufs :
        LET r == returned[w] IN
        /\ r = << >> => len[w] = len0[w]
        /\ r # << >> =>
              /\ shards[r[1]].start_offset = len0[w]
              /\ shards[r[Len(r)]].end_offset = len[w]
              /\ \A k \in 1..(Len(r) - 1) :
                    shards[r[k + 1]].start_offset = shards[r[k]].end_offset
        /\ \A k \in 1..Len(r) :
              /\ shards[r[k]].state = "returned" /\ shards[r[k]].returned_to = w
              /\ shards[r[k]].start_offset <= shards[r[k]].end_offset
        /\ \A s \in ShardIds :
              (shards[s].state = "returned" /\ shards[s].returned_to = w)
              => Cardinality({k \in 1..Len(r) : r[k] = s}) = 1

\* two shards that are not empty were returned to the writer of an allocated Vec
C16_Witness ==
    \E w \in Bufs :
        /\ ~zst
        /\ Len(returned[w]) = 2
        /\ NonEmpty(returned[w][1]) /\ NonEmpty(returned[w][2])
        /\ len[w] = len0[w] + 2

\* the entries of the Drops of all shards that read slot i behind pointer p
DestructionsOf(p, i) ==
    {<<s, k>> \in ShardIds \X (1..UsizeMax) :
        /\ shards[s].storage = p
        /\ k <= Len(shards[s].destructed)
        /\ shards[s].destructed[k][1] = i}

\* every value a shard accepted has one owner
OwnedOnce ==
    \A s \in ShardIds :
        LET sh == shards[s] IN
        /\ sh.state = "live" => sh.destructed = << >>
        /\ sh.state = "returned" =>
              /\ sh.destructed = << >>
              /\ Len(sh.pushed) = sh.end_offset - sh.start_offset
              /\ \A i \in 0..(UsizeMax - 1) : Claims(s, i) =>
                    /\ i < len[sh.returned_to]
                    /\ ReturnedAt(sh.returned_to, i) = {s}
                    /\ ~zst => DestructionsOf(sh.storage, i) = {}
        /\ sh.state = "dropped" =>
              /\ Len(sh.destructed) = Len(sh.pushed)
              /\ \A k \in 1..Len(sh.pushed) :
                    /\ sh.destructed[k] = <<sh.start_offset + k - 1, sh.pushed[k]>>
                    /\ ~zst =>
                          /\ DestructionsOf(sh.storage, sh.start_offset + k - 1) = {<<s, k>>}
                          /\ len[sh.storage] <= sh.start_offset + k - 1

\* C17: every value a push accepted is owned once: the values of a returned
\* shard are elements of the Vec and were not destructed, the values of a
\* dropped shard were each destructed once and are not elements of the Vec,
\* and no step changes a shard that was returned or dropped
C17_OwnedExactlyOnce ==
    [][/\ OwnedOnce'
       /\ \A s \in ShardIds : ~Live(s) => shards'[s] = shards[s]]_vars

\* one shard was filled and returned, the next was written to and dropped
C17_Witness ==
    /\ Len(shards) = 2
    /\ shards[1].state = "returned" /\ Len(shards[1].pushed) = 1
    /\ shards[2].state = "dropped" /\ Len(shards[2].destructed) = 1
    /\ shards[1].owner = shards[2].owner

\* C18: only a successful try_return_shard changes a Vec's length, and it sets
\* the length of its writer's Vec to the shard's end; every other step, a
\* refused return included, leaves all lengths as they were, a refused return
\* leaves taken as it was, no step changes an element below the length, and
\* the length never decreases
C18_OnlyReturnExtends ==
    [][/\ \A w \in Bufs :
            /\ len'[w] >= len[w]
            /\ len'[w] # len[w] =>
                  /\ last'.op = "try_return_shard" /\ last'.res = "Ok" /\ last'.w = w
                  /\ len'[w] = shards[last'.s].end_offset
            /\ \A i \in 0..(UsizeMax - 1) :
                  i < len[w] => ReadSlotAfter(as_mut_ptr(w), i) = VecGet(w, i)
       /\ \A w \in Bufs, s \in ShardIds :
            ReturnStep(w, s) =>
                IF last'.res = "Ok"
                THEN /\ len'[w] = shards[s].end_offset
                     /\ \A v \in Bufs : v # w => len'[v] = len[v]
                ELSE len' = len /\ taken' = taken /\ mem' = mem
      ]_vars

\* a shard that is not empty was returned; a later shard of its writer had
\* been dropped
C18_Witness ==
    /\ last.op = "try_return_shard" /\ last.res = "Ok"
    /\ NonEmpty(last.s)
    /\ len[last.w] = shards[last.s].end_offset
    /\ len[last.w] > len0[last.w]
    /\ \E t \in ShardIds : shards[t].state = "dropped" /\ shards[t].owner = last.w
                           /\ t > last.s

\* C19: once a shard of non-zero size was dropped, the length of its writer's
\* Vec never exceeds the shard's start, every later return of a full shard the
\* writer handed out after it fails with OutOfOrder, taken never decreases and
\* no other shard of the writer claims an index of the dropped range
StuckBehindDropped ==
    \A s \in ShardIds :
        (shards[s].state = "dropped" /\ NonEmpty(s)) =>
            LET w == shards[s].owner IN
            /\ len[w] <= shards[s].start_offset
            /\ len'[w] <= shards[s].start_offset
            /\ taken'[w] >= taken[w]
            /\ \A t \in ShardIds :
                  (ReturnStep(w, t) /\ shards[t].owner = w /\ t > s /\ Full(shards[t]))
                  => last'.res = "OutOfOrder"
            /\ \A t \in 1..Len(shards') :
                  (t # s /\ shards'[t].owner = w) =>
                      \A i \in 0..UsizeMax :
                          ~(Claims(s, i) /\ shards'[t].start_offset <= i
                                         /\ i < shards'[t].end_offset)
C19_StuckBehindDropped == [][StuckBehindDropped]_vars

\* C20: with usize arithmetic, every successful try_take_shard(n) yields a
\* shard with end_offset - start_offset = n, and try_take_shard(n) returns None
\* whenever the mathematical sum taken + n exceeds the capacity, also when the
\* sum overflows usize and the capacity is usize::MAX
C20_TakeExactOrNone ==
    [][\A w \in Bufs, n \in 0..UsizeMax :
        TakeStep(w, n) =>
            /\ last'.res = "Some" =>
                  shards'[last'.s].end_offset - shards'[last'.s].start_offset = n
            /\ taken[w] + n > capacity[w] => last'.res = "None"]_vars
====
